---- MODULE Spec2Model ----
(***************************************************************************)
(* The randomness tests of lab_5 ("NIST tests.py"): frequency_bitwise_test, *)
(* the_same_consecutive_bits, max_consecutive_ones and analyze_sequence.    *)
(*                                                                          *)
(* A Python str is a sequence of one-character strings.  A p-value is kept  *)
(* as the exact term the code evaluates, [fn |-> ..., args |-> ...], never  *)
(* as a rounded number:                                                     *)
(*   fn = "erfc",     args = <<t, n>>     : math.erfc((t/sqrt(n))/sqrt(2))  *)
(*   fn = "literal",  args = <<k>>        : the int k                       *)
(*   fn = "erfc_c_d", args = <<cn, dn, n>>: math.erfc(c/d) with             *)
(*                      c = cn/n and d = dn*sqrt(2n)/(n*n)                  *)
(*   fn = "gammainc", args = <<o1, e1, .., o4, e4>> :                       *)
(*                      mpmath.gammainc(1.5, x/2) with                      *)
(*                      x = SUM_i (o_i - e_i)^2 / (PIScale * e_i),          *)
(*                      o_i = PIScale*V[i], e_i = PIScale*(16*PI[i])        *)
(*   fn = "none",     args = << >>        : nothing was returned            *)
(***************************************************************************)
EXTENDS Integers, Sequences, FiniteSets

\* ---------------------------------------------------------------- bounds
\* longest string over the whole alphabet (also the tail after full blocks)
MaxLen == 3
\* most 8-character blocks in front of that tail
MaxBlocks == 2
\* longest leading run of ones / trailing run of zeros of a two-run string
MaxOnesRun == 70
MaxZerosRun == 30

\* ------------------------------------------------------------- constants
\* block_size of analyze_sequence
block_size == 8
\* the literal 16 that multiplies PI[i] in x_squared
expected_blocks == 16
\* const.PI, the reference distribution for M = 8 (NIST SP 800-22, 2.4.4:
\* 0.2148, 0.3672, 0.2305, 0.1875), held as integers over PIScale
PIScale == 10000
PI ==
  <<2148, 3672, 2305, 1875>>

\* ---------------------------------------------------------------- inputs
\* "x" stands for any character other than '0' and '1'
Alphabet == {"0", "1", "x"}
BitChars == {"0", "1"}

B8(a, b, c, d, e, f, g, h) == <<a, b, c, d, e, f, g, h>>

\* one 8-bit block per longest run of ones 0, 1, 2, 3, 4 and 8
BlockPatterns ==
  { B8("0","0","0","0","0","0","0","0"),
    B8("0","1","0","1","0","1","0","1"),
    B8("0","0","1","1","0","0","1","1"),
    B8("0","1","1","1","0","1","1","0"),
    B8("0","0","1","1","1","1","0","0"),
    B8("1","1","1","1","1","1","1","1") }

\* the sequences of unit_test.py
cpp ==
  <<
    "0", "0", "0", "0", "1", "0", "1", "0", "0", "1", "1", "1", "0", "1", "1", "1",
    "1", "0", "0", "1", "0", "0", "0", "1", "1", "0", "1", "1", "0", "1", "1", "1",
    "0", "0", "1", "0", "1", "1", "0", "1", "0", "1", "0", "1", "1", "1", "1", "1",
    "0", "1", "0", "0", "1", "1", "1", "0", "0", "1", "0", "0", "1", "0", "1", "1",
    "1", "1", "1", "0", "1", "1", "1", "1", "1", "1", "1", "0", "1", "1", "1", "1",
    "1", "0", "0", "1", "0", "1", "1", "0", "1", "1", "1", "1", "1", "0", "0", "0",
    "1", "1", "0", "1", "1", "0", "0", "0", "1", "0", "0", "0", "1", "1", "0", "0",
    "0", "0", "1", "1", "1", "0", "1", "1", "1", "0", "1", "0", "1", "1", "0", "0"
  >>

java ==
  <<
    "1", "1", "0", "0", "0", "0", "1", "1", "1", "1", "1", "1", "1", "0", "1", "1",
    "1", "1", "0", "1", "1", "1", "1", "1", "1", "1", "0", "0", "1", "0", "1", "0",
    "1", "1", "1", "1", "0", "1", "0", "0", "1", "0", "0", "1", "1", "0", "0", "0",
    "1", "0", "0", "1", "1", "0", "1", "1", "1", "0", "1", "1", "1", "0", "1", "1",
    "1", "0", "1", "0", "0", "1", "0", "0", "0", "0", "1", "1", "1", "1", "1", "0",
    "1", "1", "1", "1", "0", "1", "0", "1", "0", "0", "0", "1", "1", "0", "0", "1",
    "1", "0", "0", "1", "1", "0", "0", "0", "0", "0", "0", "0", "1", "1", "0", "1",
    "1", "0", "0", "0", "1", "0", "0", "1", "0", "1", "1", "1", "0", "1", "1", "1"
  >>

ShortStrings == UNION { [1..k -> Alphabet] : k \in 0..MaxLen }

RECURSIVE Flatten(_)
Flatten(bs) == IF bs = << >> THEN << >> ELSE Head(bs) \o Flatten(Tail(bs))

BlockStrings == { Flatten(bs) : bs \in UNION { [1..k -> BlockPatterns] : k \in 0..MaxBlocks } }

TwoRun(k, m) == [i \in 1..(k + m) |-> IF i <= k THEN "1" ELSE "0"]

TwoRunStrings == { TwoRun(k, m) : k \in 0..MaxOnesRun, m \in 0..MaxZerosRun }

Inputs ==
  { b \o t : b \in BlockStrings, t \in ShortStrings } \cup TwoRunStrings \cup {cpp, java}

\* ------------------------------------------------------------- arithmetic
Abs(x) == IF x < 0 THEN -x ELSE x
Min(x, y) == IF x <= y THEN x ELSE y
Max(x, y) == IF x >= y THEN x ELSE y

\* str.count("1")
CountOnes(s) == Cardinality({ i \in 1..Len(s) : s[i] = "1" })

\* ---------------------------------------------------------------- results
NoValue == [fn |-> "none", args |-> << >>]

Return(p, v, bl) == [status |-> "returned", p_value |-> p, V |-> v, blocks |-> bl]
Raise(e, v, bl) == [status |-> e, p_value |-> NoValue, V |-> v, blocks |-> bl]

\* ------------------------------------------------------------------ state
\* what the functions below read besides their arguments
VARIABLES
  V,              \* the local V of the last call when it ended: << >> not assigned,
                  \* <<V>> in the_same_consecutive_bits, the 4 counters in analyze_sequence
  const_PI        \* the module global PI imported from const

\* ------------------------------------------------- frequency_bitwise_test
\* sum(1 if bit == '1' else -1 for bit in bit_sequence): one +1 per '1' and
\* one -1 per other character
total_sum(bit_sequence) ==
  Cardinality({ i \in 1..Len(bit_sequence) : bit_sequence[i] = "1" })
    - Cardinality({ i \in 1..Len(bit_sequence) : bit_sequence[i] # "1" })

\* S_obs = abs(total_sum) / math.sqrt(len(bit_sequence)), without the abs
S_obs_signed(bit_sequence) == <<total_sum(bit_sequence), Len(bit_sequence)>>

\* S_obs = abs(total_sum) / math.sqrt(len(bit_sequence)), as <<|S|, n>>
S_obs(bit_sequence) == <<Abs(total_sum(bit_sequence)), Len(bit_sequence)>>

frequency_bitwise_test(bit_sequence) ==
  IF Len(bit_sequence) = 0
    THEN Raise("ZeroDivisionError", << >>, << >>)   \* abs(0) / math.sqrt(0)
    ELSE Return([fn |-> "erfc", args |-> S_obs(bit_sequence)], << >>, << >>)

\* ---------------------------------------------- the_same_consecutive_bits
\* The pairs <<n, ones>> with (2*ones - n)^2 = 16*n, n < 400, at which the
\* double-precision evaluation of  abs(a - 0.5) >= (2 / math.sqrt(n))  is
\* False although the two sides are equal as reals: ones/n rounds down, so
\* e.g. 70/100 - 0.5 gives 0.19999999999999996 against 2/10.0 = 0.2.  At the
\* other ties below 400 (n = 16, 36, 64, 100 with ones = 30, 144 with
\* ones = 48, 196, 256, 324) the comparison is True.
RoundedBelowTie == { <<100, 70>>, <<144, 96>> }

\* abs(a - 0.5) >= (2 / math.sqrt(n))  with a = ones / n, n > 0
precheck(ones, n) ==
  /\ <<n, ones>> \notin RoundedBelowTie
  /\ (2 * ones - n) * (2 * ones - n) >= 16 * n

\* V after the loop, were it  for i in range(n-2)
count_switches_short(bits) ==
  Cardinality({ i \in 1..(Len(bits) - 2) : bits[i] # bits[i + 1] })

\* V after the loop  for i in range(n-1): if bits[i] != bits[i+1]: V += 1
\* (bits[i], bits[i+1] of the code are bits[i], bits[i+1] for i in 1..n-1 here)
count_switches(bits) ==
  Cardinality({ i \in 1..(Len(bits) - 1) : bits[i] # bits[i + 1] })

the_same_consecutive_bits(bits) ==
  LET n    == Len(bits)
      ones == CountOnes(bits)
      Vs   == count_switches(bits)
      \* c = abs(V - 2*n*a*(1-a)) = c_n / n
      c_n  == Abs(Vs * n - 2 * ones * (n - ones))
      \* d = 2*sqrt(2n)*a*(1-a) = d_n * sqrt(2n) / (n*n)
      d_n  == 2 * ones * (n - ones)
  IN  IF n = 0
        THEN Raise("ZeroDivisionError", << >>, << >>)       \* bits.count("1") / n
      ELSE IF precheck(ones, n)
        THEN Return([fn |-> "literal", args |-> <<0>>], << >>, << >>)
      ELSE IF d_n = 0
        THEN Raise("ZeroDivisionError", <<Vs>>, << >>)      \* c / d with d = 0.0
      ELSE Return([fn |-> "erfc_c_d", args |-> <<c_n, d_n, n>>], <<Vs>>, << >>)

\* --------------------------------------------------- max_consecutive_ones
\* one pass of the loop body without  else: current_count = 0
mco_step_no_reset(counts, bit) ==
  IF bit = "1"
    THEN <<Max(counts[1], counts[2] + 1), counts[2] + 1>>
    ELSE counts

\* one pass of the loop body on <<max_count, current_count>>
mco_step(counts, bit) ==
  IF bit = "1"
    THEN <<Max(counts[1], counts[2] + 1), counts[2] + 1>>
    ELSE <<counts[1], 0>>

\* <<max_count, current_count>> after each character of block
mco_scan(block) ==
  LET acc[i \in 0..Len(block)] ==
        IF i = 0 THEN <<0, 0>> ELSE mco_step(acc[i - 1], block[i])
  IN  acc

max_consecutive_ones(block) == mco_scan(block)[Len(block)][1]

\* ------------------------------------------------------- analyze_sequence
\* [sequence[i:i + block_size] for i in range(0, len(sequence), block_size)]
slice_blocks(sequence) ==
  [j \in 1..((Len(sequence) + block_size - 1) \div block_size) |->
     SubSeq(sequence, block_size * (j - 1) + 1, Min(block_size * j, Len(sequence)))]

\* the match statement with the first case tightened to max_length < 1
bucket_strict(max_length) ==
  IF max_length < 1 THEN 1
  ELSE IF max_length = 2 THEN 2
  ELSE IF max_length = 3 THEN 3
  ELSE 4

\* the match statement; V[0..3] of the code is V[1..4] here
bucket(max_length) ==
  IF max_length <= 1 THEN 1
  ELSE IF max_length = 2 THEN 2
  ELSE IF max_length = 3 THEN 3
  ELSE 4

\* V after the loop over blocks, were V = [0] * 4 not run again by a later call
count_buckets_stale(bls) ==
  LET acc[j \in 0..Len(bls)] ==
        IF j = 0 THEN (IF Len(V) = 4 THEN V ELSE <<0, 0, 0, 0>>)
        ELSE [acc[j - 1] EXCEPT ![bucket(max_consecutive_ones(bls[j]))] = @ + 1]
  IN  acc[Len(bls)]

\* V after the loop over blocks
count_buckets(bls) ==
  LET acc[j \in 0..Len(bls)] ==
        IF j = 0 THEN <<0, 0, 0, 0>>
        ELSE [acc[j - 1] EXCEPT ![bucket(max_consecutive_ones(bls[j]))] = @ + 1]
  IN  acc[Len(bls)]

\* the summands (V[i] - 16*PI[i])**2 / (16*PI[i]) as <<o1, e1, .., o4, e4>>
x_squared(Vb) ==
  <<PIScale * Vb[1], expected_blocks * const_PI[1],
    PIScale * Vb[2], expected_blocks * const_PI[2],
    PIScale * Vb[3], expected_blocks * const_PI[3],
    PIScale * Vb[4], expected_blocks * const_PI[4]>>

analyze_sequence(sequence) ==
  LET bls == slice_blocks(sequence)
      Vb  == count_buckets(bls)
  IN  Return([fn |-> "gammainc", args |-> x_squared(Vb)], Vb, bls)

\* ------------------------------------------------- calls of the tests
VARIABLES
  bit_sequence,   \* the str handed to the tests
  test,           \* the function called last, "none" before the first call
  status,         \* "returned" or the exception it raised
  p_value,        \* what it returned
  blocks,         \* the blocks analyze_sequence classified
  scans,          \* per block, <<max_count, current_count>> of max_consecutive_ones
                  \* before its loop and after each character
  previous        \* the function called before the last one, "none" if there is none

nist_vars == <<bit_sequence, test, previous, status, p_value, V, blocks, scans, const_PI>>

\* main() of "NIST tests.py"
VARIABLES
  data,           \* what read_json(PATH) gave: [loaded, cpp, java]
  main_pc,        \* 0 before read_json, k before the k-th print, 7 after the last
  report,         \* the values printed so far, in order
  main_error      \* the exception that ended main, "none" while there is none

main_vars == <<data, main_pc, report, main_error>>

\* CustomerSync over a CustomerDataAccess (lab_1)
VARIABLES
  customers,      \* the rows of the table customers, in ROWID order
  external,       \* the ExternalCustomer of the last syncWithDataLayer call
  sync_status,    \* "none", "returned" or the exception the last call raised
  created         \* what the last call returned, FALSE if it raised

sync_vars == <<customers, external, sync_status, created>>

\* the script of checksum.py (lab_3)
VARIABLES
  csv_data,        \* what read_csv gave: the rows of the file, the header first
  patterns,        \* patterns.values(): the regular expressions in column order
  csv_pc,          \* "start", "found" after find_invalid_data, "summed" after calculate_checksum
  invalid_indices, \* the list find_invalid_data returned
  check_sum,       \* the list whose JSON text calculate_checksum hashed
  checked_row,     \* the position in csv_data of the row validate_row was called on last, 0 if none
  row_ok           \* what that call returned

csv_vars == <<csv_data, patterns, csv_pc, invalid_indices, check_sum, checked_row, row_ok>>

\* CustomerDataLayer objects over one table customers (lab_1)
VARIABLES
  internal_id_is_key, \* whether the table the caller created declares internalId
                      \* INTEGER PRIMARY KEY, which makes it the ROWID and unique
  layer_pc,           \* per data layer: "idle", or "insert" between next_id and INSERT
  layer_customer,     \* per data layer: the customer being created, << >> if none
  layer_status        \* per data layer: "none", "returned" or the exception of its last call

layer_vars == <<internal_id_is_key, layer_pc, layer_customer, layer_status>>

vars == <<nist_vars, main_vars, sync_vars, csv_vars, layer_vars>>

\* no test has been called
NoCall ==
  /\ test = "none"
  /\ previous = "none"
  /\ status = "none"
  /\ p_value = NoValue
  /\ V = << >>
  /\ blocks = << >>
  /\ scans = << >>
  /\ const_PI = PI

\* main() is not running
NoData == [loaded |-> FALSE, cpp |-> << >>, java |-> << >>]

MainIdle ==
  /\ data = NoData
  /\ main_pc = 0
  /\ report = << >>
  /\ main_error = "none"

\* the None of Python, for str and for int fields
None == "None"
NoneId == 0

NoExternal ==
  [external_id |-> None, name |-> None, is_company |-> FALSE, company_number |-> None,
   preferred_store |-> None, postal_address |-> None, shopping_lists |-> << >>]

\* no CustomerSync is in use
SyncIdle ==
  /\ customers = << >>
  /\ external = NoExternal
  /\ sync_status = "none"
  /\ created = FALSE

\* checksum.py is not running
CsvIdle ==
  /\ csv_data = << >>
  /\ patterns = << >>
  /\ csv_pc = "start"
  /\ invalid_indices = << >>
  /\ check_sum = << >>
  /\ checked_row = 0
  /\ row_ok = FALSE

\* the data layers that share the table
Layers == {1, 2}

\* no data layer is in a call
LayersIdle ==
  /\ internal_id_is_key = FALSE
  /\ layer_pc = [l \in Layers |-> "idle"]
  /\ layer_customer = [l \in Layers |-> << >>]
  /\ layer_status = [l \in Layers |-> "none"]

Init ==
  /\ bit_sequence \in Inputs
  /\ NoCall
  /\ MainIdle
  /\ SyncIdle
  /\ CsvIdle
  /\ LayersIdle

Ends(name, r) ==
  /\ test' = name
  /\ previous' = test
  /\ status' = r.status
  /\ p_value' = r.p_value
  /\ V' = r.V
  /\ blocks' = r.blocks
  /\ scans' = [j \in 1..Len(r.blocks) |-> mco_scan(r.blocks[j])]
  /\ UNCHANGED <<bit_sequence, const_PI>>
  /\ UNCHANGED <<main_vars, sync_vars, csv_vars, layer_vars>>

CallFrequency == Ends("frequency_bitwise_test", frequency_bitwise_test(bit_sequence))

CallRuns == Ends("the_same_consecutive_bits", the_same_consecutive_bits(bit_sequence))

CallLongestRun == Ends("analyze_sequence", analyze_sequence(bit_sequence))

Next == CallFrequency \/ CallRuns \/ CallLongestRun

Spec == Init /\ [][Next]_vars

TypeOK ==
  /\ bit_sequence \in Seq(Alphabet)
  /\ test \in {"none", "frequency_bitwise_test", "the_same_consecutive_bits", "analyze_sequence"}
  /\ status \in {"none", "returned", "ZeroDivisionError"}
  /\ p_value.fn \in {"none", "erfc", "literal", "erfc_c_d", "gammainc"}

\* ------------------------------------------------------------------ main
\* longest string over the whole alphabet that the JSON file may hold
MaxMainLen == 2

\* the values of the keys "cpp" and "java" of the JSON file
MainInputs ==
  UNION { [1..k -> Alphabet] : k \in 0..MaxMainLen } \cup {cpp, java}

\* the function and the key of the k-th print of main
TestOfPrint(k) ==
  CASE k \in {1, 4} -> "frequency_bitwise_test"
    [] k \in {2, 5} -> "the_same_consecutive_bits"
    [] OTHER        -> "analyze_sequence"

LabelOfPrint(k) == IF k <= 3 THEN "cpp" ELSE "java"

\* the call  name(s)
Call(name, s) ==
  CASE name = "frequency_bitwise_test"    -> frequency_bitwise_test(s)
    [] name = "the_same_consecutive_bits" -> the_same_consecutive_bits(s)
    [] OTHER                              -> analyze_sequence(s)

\* the argument of the k-th print: data.get("cpp") or data.get("java")
ArgOfPrint(d, k) == IF k <= 3 THEN d.cpp ELSE d.java

InitMain ==
  /\ bit_sequence = << >>
  /\ NoCall
  /\ data \in { [loaded |-> TRUE, cpp |-> c, java |-> j] : c \in MainInputs, j \in MainInputs }
               \cup {NoData}
  /\ main_pc = 0
  /\ report = << >>
  /\ main_error = "none"
  /\ SyncIdle
  /\ CsvIdle
  /\ LayersIdle

\* data = read_json(PATH); cpp_data = data.get("cpp"): read_json returns
\* None when the file is missing or is not JSON, and None has no get
MainRead ==
  /\ main_pc = 0
  /\ main_error = "none"
  /\ IF data.loaded
       THEN main_pc' = 1 /\ main_error' = "none"
       ELSE main_pc' = 0 /\ main_error' = "AttributeError"
  /\ UNCHANGED <<data, report>>
  /\ UNCHANGED <<nist_vars, sync_vars, csv_vars, layer_vars>>

\* print(f(cpp_data)) or print(f(java_data)): an exception of f leaves main
MainPrint ==
  /\ main_pc \in 1..6
  /\ main_error = "none"
  /\ LET name == TestOfPrint(main_pc)
         r    == Call(name, ArgOfPrint(data, main_pc))
     IN  IF r.status = "returned"
           THEN /\ report' = Append(report, [test_name |-> name,
                                             label |-> LabelOfPrint(main_pc),
                                             p_value |-> r.p_value])
                /\ main_pc' = main_pc + 1
                /\ main_error' = "none"
           ELSE /\ main_error' = r.status
                /\ UNCHANGED <<report, main_pc>>
  /\ UNCHANGED data
  /\ UNCHANGED <<nist_vars, sync_vars, csv_vars, layer_vars>>

NextMain == MainRead \/ MainPrint

SpecMain == InitMain /\ [][NextMain]_vars

\* ------------------------------------------------------------------ lab_1
\* most rows of the table customers
MaxRows == 2

\* CustomerType.PERSON.value, CustomerType.COMPANY.value
PERSON == 1
COMPANY == 2

\* the attributes an instance of each class has
ExternalCustomerAttrs ==
  {"external_id", "name", "is_company", "company_number", "preferred_store",
   "postal_address", "shopping_lists"}

CustomerAttrs ==
  {"internal_id", "external_id", "master_external_id", "name", "customer_type",
   "company_number", "shopping_lists", "address", "add_shopping_list"}

CustomerMatchesAttrs ==
  {"match_term", "customer", "duplicates", "has_duplicates", "add_duplicate"}

CustomerDataAccessAttrs ==
  {"customer_data_layer", "load_company_customer", "load_person_customer",
   "update_customer_record", "create_customer_record", "update_shopping_list"}

\* the ExternalCustomer objects handed to syncWithDataLayer
ExternalCustomers ==
  { [external_id |-> e, name |-> "n", is_company |-> c, company_number |-> k,
     preferred_store |-> "s", postal_address |-> "a", shopping_lists |-> << >>] :
      e \in {"e1", "e2"}, c \in BOOLEAN, k \in {None, "c1"} }

\* the Customer objects handed to create_customer_record: built by Customer(...),
\* so without address and without shopping lists
NewCustomers ==
  { [internal_id |-> NoneId, external_id |-> e, master_external_id |-> e, name |-> "n",
     customer_type |-> t, company_number |-> k] :
      e \in {"e1", "e2"}, t \in {PERSON, COMPANY}, k \in {None, "c1"} }

\* Customer() of syncWithDataLayer and updateDuplicate
EmptyCustomer ==
  [internal_id |-> NoneId, external_id |-> None, master_external_id |-> None,
   name |-> None, customer_type |-> NoneId, company_number |-> None]

\* cursor.fetchone() as << >> for None and <<row>> for a row; a comparison
\* with NULL selects nothing
FetchOneWhere(table, column, value) ==
  LET Hit(r) == value # None /\ r[column] = value
      rows   == SelectSeq(table, Hit)
  IN  IF rows = << >> THEN << >> ELSE <<rows[1]>>

\* the Customer built from the selected fields (the tables addresses and
\* shoppinglists are empty for customers built by Customer(...))
customer_from_sql_select_fields(fields) ==
  IF fields = << >> THEN << >>
  ELSE << [internal_id |-> fields[1].internalId,
           external_id |-> fields[1].externalId,
           master_external_id |-> fields[1].masterExternalId,
           name |-> fields[1].name,
           customer_type |-> fields[1].customerType,
           company_number |-> fields[1].companyNumber] >>

find_by_external_id(table, external_id) ==
  customer_from_sql_select_fields(FetchOneWhere(table, "externalId", external_id))

find_by_master_external_id(table, master_external_id) ==
  customer_from_sql_select_fields(FetchOneWhere(table, "masterExternalId", master_external_id))

find_by_company_number(table, company_number) ==
  customer_from_sql_select_fields(FetchOneWhere(table, "companyNumber", company_number))

\* SELECT MAX(ROWID): the k-th row inserted has ROWID k, no row is deleted
next_id(table) == IF Len(table) = 0 THEN 1 ELSE Len(table) + 1

RowOf(customer) ==
  [internalId |-> customer.internal_id,
   externalId |-> customer.external_id,
   masterExternalId |-> customer.master_external_id,
   name |-> customer.name,
   customerType |-> customer.customer_type,
   companyNumber |-> customer.company_number]

\* the table and the customer after create_customer_record(customer)
create_customer_record(table, customer) ==
  LET c == [customer EXCEPT !.internal_id = next_id(table)]
  IN  [table |-> Append(table, RowOf(c)), customer |-> c]

\* the table after update_customer_record(customer)
update_customer_record(table, customer) ==
  [i \in 1..Len(table) |->
     IF table[i].internalId = customer.internal_id THEN RowOf(customer) ELSE table[i]]

\* CustomerMatches as [match_term, customer, duplicates]; an Optional[Customer]
\* is << >> or <<customer>>
load_company_customer(table, external_id, company_number) ==
  LET match_by_external_id    == find_by_master_external_id(table, external_id)
      match_by_company_number == find_by_company_number(table, company_number)
  IN  IF match_by_external_id # << >>
        THEN [match_term |-> "ExternalId", customer |-> match_by_external_id,
              duplicates |-> <<match_by_external_id>>]
      ELSE IF match_by_company_number # << >>
        THEN [match_term |-> "CompanyNumber", customer |-> match_by_company_number,
              duplicates |-> << >>]
      ELSE [match_term |-> None, customer |-> << >>, duplicates |-> << >>]

load_person_customer(table, external_id) ==
  LET match_by_personal_number == find_by_external_id(table, external_id)
  IN  [match_term |-> IF match_by_personal_number # << >> THEN "ExternalId" ELSE None,
       customer |-> match_by_personal_number,
       duplicates |-> << >>]

\* what a method of CustomerSync gives: the exception or "returned", with
\* the CustomerMatches it built
Loaded(m) == [status |-> "returned", matches |-> m]
LoadRaise(e) ==
  [status |-> e, matches |-> [match_term |-> None, customer |-> << >>, duplicates |-> << >>]]

\* loadCompany: every name read on an object is looked up in the attributes
\* of its class first; what follows a lookup is reached only if it resolves
loadCompany(externalCustomer, table) ==
  IF "externalId" \notin ExternalCustomerAttrs \/ "companyNumber" \notin ExternalCustomerAttrs
    THEN LoadRaise("AttributeError")
  ELSE IF "loadCompanyCustomer" \notin CustomerDataAccessAttrs
    THEN LoadRaise("AttributeError")
  ELSE
    LET externalId    == externalCustomer.external_id
        companyNumber == externalCustomer.company_number
        m             == load_company_customer(table, externalId, companyNumber)
    IN  IF m.customer # << >> /\ "customerType" \notin CustomerAttrs
          THEN LoadRaise("AttributeError")
        ELSE IF m.customer # << >> /\ m.customer[1].customer_type # COMPANY
          THEN LoadRaise("ConflictException")
        ELSE IF "matchTerm" \notin CustomerMatchesAttrs
          THEN LoadRaise("AttributeError")
        ELSE IF m.match_term = "ExternalId"
          THEN IF companyNumber # m.customer[1].company_number
                 THEN Loaded([match_term |-> None,
                              customer |-> << >>,
                              duplicates |-> Append(m.duplicates,
                                 <<[m.customer[1] EXCEPT !.master_external_id = None]>>)])
                 ELSE Loaded(m)
        ELSE IF m.match_term = "CompanyNumber"
          THEN IF m.customer[1].external_id # None /\ externalId # m.customer[1].external_id
                 THEN LoadRaise("ConflictException")
               ELSE IF "addDuplicate" \notin CustomerMatchesAttrs
                 THEN LoadRaise("AttributeError")
               ELSE Loaded([m EXCEPT
                              !.customer = <<[m.customer[1] EXCEPT
                                                !.external_id = externalId,
                                                !.master_external_id = externalId]>>,
                              !.duplicates = Append(m.duplicates, << >>)])
        ELSE Loaded(m)

loadPerson(externalCustomer, table) ==
  IF "externalId" \notin ExternalCustomerAttrs
    THEN LoadRaise("AttributeError")
  ELSE IF "loadPersonCustomer" \notin CustomerDataAccessAttrs
    THEN LoadRaise("AttributeError")
  ELSE
    LET externalId == externalCustomer.external_id
        m          == load_person_customer(table, externalId)
    IN  IF m.customer = << >> THEN Loaded(m)
        ELSE IF "customerType" \notin CustomerAttrs
          THEN LoadRaise("AttributeError")
        ELSE IF m.customer[1].customer_type # PERSON
          THEN LoadRaise("ConflictException")
        ELSE IF "matchTerm" \notin CustomerMatchesAttrs
          THEN LoadRaise("AttributeError")
        ELSE IF m.match_term # "ExternalId"
          THEN Loaded([m EXCEPT !.customer = <<[m.customer[1] EXCEPT
                                                   !.external_id = externalId,
                                                   !.master_external_id = externalId]>>])
        ELSE Loaded(m)

\* what syncWithDataLayer leaves: the exception or "returned", the value
\* returned and the table
SyncEnds(st, cr, table) == [status |-> st, created |-> cr, table |-> table]

\* populateFields
populateFields(externalCustomer, customer) ==
  IF externalCustomer.is_company
    THEN [customer EXCEPT !.name = externalCustomer.name,
                          !.company_number = externalCustomer.company_number,
                          !.customer_type = COMPANY]
    ELSE [customer EXCEPT !.name = externalCustomer.name,
                          !.customer_type = PERSON]

\* the table after updateDuplicate(externalCustomer, duplicate)
updateDuplicate(externalCustomer, duplicate, table) ==
  LET dup == IF duplicate = << >>
               THEN [EmptyCustomer EXCEPT !.external_id = externalCustomer.external_id,
                                          !.master_external_id = externalCustomer.external_id,
                                          !.name = externalCustomer.name]
               ELSE [duplicate[1] EXCEPT !.name = externalCustomer.name]
  IN  IF dup.internal_id = NoneId
        THEN create_customer_record(table, dup).table
        ELSE update_customer_record(table, dup)

\* the table after the loop over customerMatches.duplicates
updateDuplicates(externalCustomer, duplicates, table) ==
  LET acc[i \in 0..Len(duplicates)] ==
        IF i = 0 THEN table
        ELSE updateDuplicate(externalCustomer, duplicates[i], acc[i - 1])
  IN  acc[Len(duplicates)]

\* syncWithDataLayer from line 40 on, with the CustomerMatches m
syncLoaded(externalCustomer, m, table) ==
  LET found    == m.customer # << >>
      customer == populateFields(externalCustomer,
                    IF found THEN m.customer[1]
                    ELSE [EmptyCustomer EXCEPT
                            !.external_id = externalCustomer.external_id,
                            !.master_external_id = externalCustomer.external_id])
      isnew    == customer.internal_id = NoneId
      stored   == IF isnew THEN create_customer_record(table, customer).table
                           ELSE update_customer_record(table, customer)
  IN  IF "internalId" \notin CustomerAttrs
        THEN SyncEnds("AttributeError", FALSE, table)
      ELSE SyncEnds("returned", isnew, updateDuplicates(externalCustomer, m.duplicates, stored))

\* syncWithDataLayer: line 35 reads externalCustomer.isCompany
syncWithDataLayer(externalCustomer, table) ==
  IF "isCompany" \notin ExternalCustomerAttrs
    THEN SyncEnds("AttributeError", FALSE, table)
  ELSE
    LET l == IF externalCustomer.is_company
               THEN loadCompany(externalCustomer, table)
               ELSE loadPerson(externalCustomer, table)
    IN  IF l.status # "returned"
          THEN SyncEnds(l.status, FALSE, table)
          ELSE syncLoaded(externalCustomer, l.matches, table)

InitSync ==
  /\ bit_sequence = << >>
  /\ NoCall
  /\ MainIdle
  /\ customers = << >>
  /\ external = NoExternal
  /\ sync_status = "none"
  /\ created = FALSE
  /\ CsvIdle
  /\ LayersIdle

\* CustomerDataAccess.create_customer_record(customer)
CreateCustomerRecord ==
  /\ Len(customers) < MaxRows
  /\ \E customer \in NewCustomers :
       customers' = create_customer_record(customers, customer).table
  /\ UNCHANGED <<external, sync_status, created>>
  /\ UNCHANGED <<nist_vars, main_vars, csv_vars, layer_vars>>

\* CustomerSync.syncWithDataLayer(externalCustomer)
SyncWithDataLayer ==
  /\ \E externalCustomer \in ExternalCustomers :
       LET r == syncWithDataLayer(externalCustomer, customers)
       IN  /\ external' = externalCustomer
           /\ sync_status' = r.status
           /\ created' = r.created
           /\ customers' = r.table
  /\ UNCHANGED <<nist_vars, main_vars, csv_vars, layer_vars>>

NextSync == CreateCustomerRecord \/ SyncWithDataLayer

SpecSync == InitSync /\ [][NextSync]_vars

\* ---------------------------------------------- lab_1, two data layers
\* INSERT INTO customers of create_customer_record: with internalId as the
\* key of the table a second row with the same internalId is refused
insert_customer(table, customer, is_key) ==
  IF is_key /\ \E i \in 1..Len(table) : table[i].internalId = customer.internal_id
    THEN [status |-> "IntegrityError", table |-> table]
    ELSE [status |-> "returned", table |-> Append(table, RowOf(customer))]

InitLayers ==
  /\ bit_sequence = << >>
  /\ NoCall
  /\ MainIdle
  /\ SyncIdle
  /\ CsvIdle
  /\ internal_id_is_key \in BOOLEAN
  /\ layer_pc = [l \in Layers |-> "idle"]
  /\ layer_customer = [l \in Layers |-> << >>]
  /\ layer_status = [l \in Layers |-> "none"]

\* create_customer_record, line 293: customer.internal_id = self.next_id("customers")
NextId(l) ==
  /\ layer_pc[l] = "idle"
  /\ Len(customers) < MaxRows
  /\ \E customer \in NewCustomers :
       layer_customer' = [layer_customer EXCEPT
                            ![l] = <<[customer EXCEPT !.internal_id = next_id(customers)]>>]
  /\ layer_pc' = [layer_pc EXCEPT ![l] = "insert"]
  /\ UNCHANGED <<internal_id_is_key, layer_status>>
  /\ UNCHANGED <<nist_vars, main_vars, sync_vars, csv_vars>>

\* create_customer_record from line 294 on: the INSERT, the commit and the
\* return (the customer has no address and no shopping lists)
InsertCustomer(l) ==
  /\ layer_pc[l] = "insert"
  /\ LET r == insert_customer(customers, layer_customer[l][1], internal_id_is_key)
     IN  /\ customers' = r.table
         /\ layer_status' = [layer_status EXCEPT ![l] = r.status]
  /\ layer_pc' = [layer_pc EXCEPT ![l] = "idle"]
  /\ UNCHANGED <<internal_id_is_key, layer_customer>>
  /\ UNCHANGED <<external, sync_status, created>>
  /\ UNCHANGED <<nist_vars, main_vars, csv_vars>>

NextLayers == \E l \in Layers : NextId(l) \/ InsertCustomer(l)

SpecLayers == InitLayers /\ [][NextLayers]_vars

\* ------------------------------------------------------------------ lab_3
\* most data rows after the header, most values of a row, most patterns
MaxDataRows == 2
MaxRowLen == 2
MaxPatterns == 2

\* the values of the cells
CsvValues == { <<"1">>, <<"1", "a">> }

\* a regular expression as the character classes a match has to start with
\* and whether it ends in $:  \d  and  ^\d$
CsvPatterns ==
  { [classes |-> <<{"1"}>>, anchored |-> FALSE],
    [classes |-> <<{"1"}>>, anchored |-> TRUE] }

CsvRows == UNION { [1..k -> CsvValues] : k \in 0..MaxRowLen }

\* the header line of the file
CsvHeader == <<<<"a">>, <<"a">>>>

\* re.match(pattern, val) is not None: a match at the start of val, up to
\* its end if the pattern ends in $
re_match(pattern, val) ==
  /\ Len(val) >= Len(pattern.classes)
  /\ \A i \in 1..Len(pattern.classes) : val[i] \in pattern.classes[i]
  /\ pattern.anchored => Len(val) = Len(pattern.classes)

\* validate_row, were its result that of the last pair of the zip alone
validate_row_last(row, pats) ==
  LET n == Min(Len(row), Len(pats))
  IN  n = 0 \/ re_match(pats[n], row[n])

\* validate_row: the loop over zip(row, patterns.values()), which ends with
\* the shorter of the two, returns False at the first value that does not
\* match and True after the last pair
validate_row(row, pats) ==
  LET n == Min(Len(row), Len(pats))
      scan[i \in 1..(n + 1)] ==
        IF i > n THEN TRUE
        ELSE IF ~ re_match(pats[i], row[i]) THEN FALSE
        ELSE scan[i + 1]
  IN  scan[1]

\* find_invalid_data with the loop over enumerate(data) instead of data[1:]
find_invalid_data_all_rows(pats, rows) ==
  LET acc[k \in 0..Len(rows)] ==
        IF k = 0 THEN << >>
        ELSE IF ~ validate_row(rows[k], pats) THEN Append(acc[k - 1], k - 1)
        ELSE acc[k - 1]
  IN  acc[Len(rows)]

\* invalid_indices after the loop over enumerate(data[1:]): data[1:][index]
\* is rows[index + 2] here
find_invalid_data(pats, rows) ==
  LET tail == IF rows = << >> THEN << >> ELSE Tail(rows)
      acc[k \in 0..Len(tail)] ==
        IF k = 0 THEN << >>
        ELSE IF ~ validate_row(tail[k], pats) THEN Append(acc[k - 1], k - 1)
        ELSE acc[k - 1]
  IN  acc[Len(tail)]

\* list.sort() on a list of int
RECURSIVE sort(_)
sort(row_numbers) ==
  IF row_numbers = << >> THEN << >>
  ELSE LET least == CHOOSE x \in { row_numbers[i] : i \in 1..Len(row_numbers) } :
                      \A j \in 1..Len(row_numbers) : x <= row_numbers[j]
           at    == CHOOSE i \in 1..Len(row_numbers) : row_numbers[i] = least
       IN  <<least>> \o sort(SubSeq(row_numbers, 1, at - 1)
                             \o SubSeq(row_numbers, at + 1, Len(row_numbers)))

InitCsv ==
  /\ bit_sequence = << >>
  /\ NoCall
  /\ MainIdle
  /\ SyncIdle
  /\ csv_data \in {<< >>} \cup
       { <<CsvHeader>> \o rows : rows \in UNION { [1..k -> CsvRows] : k \in 0..MaxDataRows } }
  /\ patterns \in UNION { [1..k -> CsvPatterns] : k \in 0..MaxPatterns }
  /\ csv_pc = "start"
  /\ invalid_indices = << >>
  /\ check_sum = << >>
  /\ checked_row = 0
  /\ row_ok = FALSE
  /\ LayersIdle

\* validate_row(row, patterns) on a row of the file
ValidateRow ==
  /\ \E k \in 1..Len(csv_data) :
       /\ checked_row' = k
       /\ row_ok' = validate_row(csv_data[k], patterns)
  /\ UNCHANGED <<csv_data, patterns, csv_pc, invalid_indices, check_sum>>
  /\ UNCHANGED <<nist_vars, main_vars, sync_vars, layer_vars>>

\* invalid = find_invalid_data(pattern, data)
FindInvalidData ==
  /\ csv_pc = "start"
  /\ invalid_indices' = find_invalid_data(patterns, csv_data)
  /\ csv_pc' = "found"
  /\ UNCHANGED <<csv_data, patterns, check_sum, checked_row, row_ok>>
  /\ UNCHANGED <<nist_vars, main_vars, sync_vars, layer_vars>>

\* check_sum = calculate_checksum(invalid): sorts the list in place and
\* hashes its JSON text
CalculateChecksum ==
  /\ csv_pc = "found"
  /\ invalid_indices' = sort(invalid_indices)
  /\ check_sum' = sort(invalid_indices)
  /\ csv_pc' = "summed"
  /\ UNCHANGED <<csv_data, patterns, checked_row, row_ok>>
  /\ UNCHANGED <<nist_vars, main_vars, sync_vars, layer_vars>>

NextCsv == ValidateRow \/ FindInvalidData \/ CalculateChecksum

SpecCsv == InitCsv /\ [][NextCsv]_vars

\* ------------------------------------------------------------- properties
length == Len(bit_sequence)

\* every character is '0' or '1'
OnlyBits(s) == \A i \in 1..Len(s) : s[i] \in BitChars

\* a valid BitSequence: non-empty and over {0,1}
Valid(s) == Len(s) >= 1 /\ OnlyBits(s)

\* |a - 0.5| >= 2/sqrt(n) over the reals, a = ones/n
ProportionOutOfBounds(ones, len) == (2 * ones - len) * (2 * ones - len) >= 16 * len

\* flipping every bit
Invert(s) == [i \in 1..Len(s) |-> IF s[i] = "1" THEN "0" ELSE "1"]

MinLength(name) ==
  IF name = "the_same_consecutive_bits" THEN 2
  ELSE IF name = "analyze_sequence" THEN block_size
  ELSE 1

\* the value the term p denotes lies in [0, 1]: erfc maps [0, inf) into
\* (0, 1] and (-inf, 0) into (1, 2); gammainc(1.5, x) lies in (0, Gamma(1.5)]
\* with Gamma(1.5) < 0.89 for x >= 0.
InUnitInterval(p) ==
  CASE p.fn = "literal"  -> p.args[1] \in {0, 1}
    [] p.fn = "erfc"     -> p.args[1] >= 0 /\ p.args[2] > 0
    [] p.fn = "erfc_c_d" -> p.args[1] >= 0 /\ p.args[2] > 0 /\ p.args[3] > 0
    [] p.fn = "gammainc" -> \A i \in 1..4 : p.args[2 * i] > 0
    [] OTHER             -> FALSE

\* C1: a bit string of length n >= 2 whose proportion of ones is out of
\* bounds, (2*ones - n)^2 >= 16*n, makes the_same_consecutive_bits return
\* exactly 0 without computing V or the erfc statistic.
C1_ShortCircuit ==
  ( /\ test = "the_same_consecutive_bits"
    /\ Valid(bit_sequence)
    /\ length >= 2
    /\ ProportionOutOfBounds(CountOnes(bit_sequence), length) )
  => ( /\ status = "returned"
       /\ p_value = [fn |-> "literal", args |-> <<0>>]
       /\ V = << >> )

\* C2: on a valid bit sequence of the minimum length the test requires,
\* each of the three tests returns a p-value in [0, 1].
C2_PValueInUnitInterval ==
  ( /\ test # "none"
    /\ Valid(bit_sequence)
    /\ length >= MinLength(test) )
  => ( status = "returned" /\ InUnitInterval(p_value) )

\* C3: frequency_bitwise_test gives the same result on a valid sequence and
\* on its bitwise inversion.
C3_FrequencyInversionInvariant ==
  ( test = "frequency_bitwise_test" /\ Valid(bit_sequence) )
  => ( /\ status = frequency_bitwise_test(Invert(bit_sequence)).status
       /\ p_value = frequency_bitwise_test(Invert(bit_sequence)).p_value )

\* frequency_bitwise_test has returned on a valid sequence with more ones
\* than zeros, whose inversion has more zeros than ones
C3_Witness ==
  /\ test = "frequency_bitwise_test"
  /\ status = "returned"
  /\ Valid(bit_sequence)
  /\ total_sum(bit_sequence) > 0
  /\ total_sum(Invert(bit_sequence)) < 0

\* C4: analyze_sequence classifies exactly floor(n/8) blocks, each of
\* exactly 8 bits; the trailing n mod 8 bits increment no bucket.
C4_BlockTruncation ==
  ( /\ test = "analyze_sequence"
    /\ Valid(bit_sequence)
    /\ length >= block_size )
  => ( /\ Len(blocks) = length \div block_size
       /\ \A j \in 1..Len(blocks) : Len(blocks[j]) = block_size
       /\ V[1] + V[2] + V[3] + V[4] = length \div block_size )

\* C5: analyze_sequence on a sequence shorter than one block fails with
\* InvalidInput and returns no p-value.
C5_ShortSequenceRejected ==
  ( test = "analyze_sequence" /\ length < block_size )
  => ( status = "InvalidInput" /\ p_value = NoValue )

\* C6: every test called with the empty string ends in InvalidInput, not in
\* an arithmetic error and not with a value.
C6_EmptyRejected ==
  ( test # "none" /\ length = 0 )
  => ( status = "InvalidInput" /\ p_value = NoValue )

\* C7: a string with a character other than '0' and '1' is rejected with
\* InvalidInput before any statistic is computed.
C7_AlphabetRejected ==
  ( test # "none" /\ ~ OnlyBits(bit_sequence) )
  => ( /\ status = "InvalidInput"
       /\ p_value = NoValue
       /\ V = << >> )

\* C8: the_same_consecutive_bits on a bit sequence of length n < 2 (a single
\* bit) fails with InvalidInput, not with a p-value and not with an
\* arithmetic error.
C8_RunsMinimumLength ==
  ( /\ test = "the_same_consecutive_bits"
    /\ Valid(bit_sequence)
    /\ length < 2 )
  => ( status = "InvalidInput" /\ p_value = NoValue )

\* C9: the expected count of bucket i in the chi-square statistic is
\* N*PI[i], N the number of full 8-bit blocks of the input.
C9_ExpectedCountScalesWithBlocks ==
  ( /\ test = "analyze_sequence"
    /\ status = "returned"
    /\ Valid(bit_sequence)
    /\ length >= block_size )
  => \A i \in 1..4 : p_value.args[2 * i] = (length \div block_size) * PI[i]

\* the terms behind the values expected by unit_test.py:
\*   cpp : erfc(20/sqrt(128)/sqrt(2)) = erfc(1.25)    = 0.07709987174354183
\*         V = 62, 74 ones, erfc(c/d)                 = 0.9368137041187848
\*         buckets 2, 6, 4, 4, gammainc(1.5, x/2)     = 0.718013202470707
\*   java: erfc(18/sqrt(128)/sqrt(2))                 = 0.11161176829829222
\*         V = 58, 73 ones, erfc(c/d)                 = 0.39320937215824525
\*         buckets 2, 7, 2, 5, gammainc(1.5, x/2)     = 0.357873168545895
ReferenceTerms(s, name) ==
  IF s = cpp
    THEN CASE name = "frequency_bitwise_test" ->
                [fn |-> "erfc", args |-> <<20, 128>>]
           [] name = "the_same_consecutive_bits" ->
                [fn |-> "erfc_c_d", args |-> <<56, 7992, 128>>]
           [] OTHER ->
                [fn |-> "gammainc",
                 args |-> <<20000, 34368, 60000, 58752, 40000, 36880, 40000, 30000>>]
    ELSE CASE name = "frequency_bitwise_test" ->
                [fn |-> "erfc", args |-> <<18, 128>>]
           [] name = "the_same_consecutive_bits" ->
                [fn |-> "erfc_c_d", args |-> <<606, 8030, 128>>]
           [] OTHER ->
                [fn |-> "gammainc",
                 args |-> <<20000, 34368, 70000, 58752, 20000, 36880, 50000, 30000>>]

ReferenceResults ==
  test # "none" => ( status = "returned" /\ p_value = ReferenceTerms(bit_sequence, test) )

\* C10 as stated: the reference inputs are 134-bit strings and the three
\* tests return on them the terms of the expected p-values.
C10_ReferenceVectors134 ==
  bit_sequence \in {cpp, java} => ( length = 134 /\ ReferenceResults )

\* C10, amended: the reference inputs are 128-bit strings and the three
\* tests return on them the terms of the expected p-values.
C10_ReferenceVectors ==
  bit_sequence \in {cpp, java} => ( length = 128 /\ ReferenceResults )

\* analyze_sequence has returned on the java reference sequence
C10_Witness ==
  /\ bit_sequence = java
  /\ test = "analyze_sequence"
  /\ status = "returned"
  /\ V = <<2, 7, 2, 5>>

\* main() has ended, by returning or by an exception
MainEnded == main_pc = 7 \/ main_error # "none"

\* C11: a failing evaluation does not stop the others: when main has ended,
\* every (test, label) pair whose call returns has its result in the report.
C11_FailureIsolation ==
  ( MainEnded /\ data.loaded )
  => \A k \in 1..6 :
       LET r == Call(TestOfPrint(k), ArgOfPrint(data, k))
       IN  r.status = "returned"
           => \E i \in 1..Len(report) :
                report[i] = [test_name |-> TestOfPrint(k),
                             label |-> LabelOfPrint(k),
                             p_value |-> r.p_value]

\* what the last call left behind
Outcome == [status |-> status, p_value |-> p_value, V |-> V, blocks |-> blocks]

\* what a call leaves behind is what the same call gives on the same
\* sequence in any state, and PI is the table of const
FunctionOfInput ==
  /\ const_PI = PI
  /\ test # "none" => Outcome = Call(test, bit_sequence)

MatchedCustomer(e, table) ==
  IF e.is_company
    THEN load_company_customer(table, e.external_id, e.company_number).customer
    ELSE find_by_external_id(table, e.external_id)

\* the matched customer is of the other type
TypeConflict(e, table) ==
  /\ MatchedCustomer(e, table) # << >>
  /\ MatchedCustomer(e, table)[1].customer_type # (IF e.is_company THEN COMPANY ELSE PERSON)

\* the company matched by its number belongs to another external id
ExternalIdConflict(e, table) ==
  /\ e.is_company
  /\ load_company_customer(table, e.external_id, e.company_number).match_term = "CompanyNumber"
  /\ MatchedCustomer(e, table)[1].external_id \notin {None, e.external_id}

\* the matched customer is kept as the customer to update (a company found
\* by its external id under another company number becomes a duplicate)
KeepsMatch(e, table) ==
  /\ MatchedCustomer(e, table) # << >>
  /\ ~ ( /\ e.is_company
         /\ load_company_customer(table, e.external_id, e.company_number).match_term = "ExternalId"
         /\ MatchedCustomer(e, table)[1].company_number # e.company_number )

\* C13: for an external customer whose data does not conflict,
\* syncWithDataLayer returns, True when it created a new record for the
\* customer (no existing customer was kept as the match) and False when it
\* updated the existing one.
C13_SyncReturnsCreated ==
  [][ ( /\ SyncWithDataLayer
        /\ ~ TypeConflict(external', customers)
        /\ ~ ExternalIdConflict(external', customers) )
      => ( /\ sync_status' = "returned"
           /\ created' = ~ KeepsMatch(external', customers) ) ]_vars

\* C14: when the matched customer is of the other type, syncWithDataLayer
\* raises ConflictException and has created or updated no record.
C14_TypeConflictRaises ==
  [][ ( SyncWithDataLayer /\ TypeConflict(external', customers) )
      => ( sync_status' = "ConflictException" /\ customers' = customers ) ]_vars

\* the values of the list s
Elements(s) == { s[i] : i \in 1..Len(s) }

\* C15: find_invalid_data returns, in ascending order, exactly the numbers
\* of the data rows validate_row rejects, the row after the header being
\* number 0; the header is neither validated nor reported.
C15_InvalidIndices ==
  csv_pc # "start"
  => ( /\ \A i \in 1..(Len(invalid_indices) - 1) : invalid_indices[i] < invalid_indices[i + 1]
       /\ Elements(invalid_indices)
            = { k \in 0..(Len(csv_data) - 2) : ~ validate_row(csv_data[k + 2], patterns) } )

\* find_invalid_data has returned on a file whose header fails the
\* patterns, whose first data row is valid and whose second is not
C15_Witness ==
  /\ csv_pc = "found"
  /\ Len(csv_data) = 3
  /\ ~ validate_row(csv_data[1], patterns)
  /\ validate_row(csv_data[2], patterns)
  /\ invalid_indices = <<1>>

LongestRunOfOnes(block) ==
  LET lengths == { m \in 0..Len(block) :
                     \E i \in 1..(Len(block) - m + 1) :
                       \A j \in i..(i + m - 1) : block[j] = "1" }
  IN  CHOOSE m \in lengths : \A k \in lengths : k <= m

\* the blocks whose longest run of ones is in the set lens
BlocksWith(lens) ==
  { j \in 1..Len(blocks) : LongestRunOfOnes(blocks[j]) \in lens }

\* C17: every block analyze_sequence processed is counted in exactly one
\* of V[0..3], chosen by its longest run of ones (<= 1, 2, 3, >= 4), so the
\* four counters add up to the number of blocks processed.
C17_BucketClassification ==
  test = "analyze_sequence"
  => ( /\ Len(V) = 4
       /\ V[1] = Cardinality(BlocksWith({0, 1}))
       /\ V[2] = Cardinality(BlocksWith({2}))
       /\ V[3] = Cardinality(BlocksWith({3}))
       /\ V[4] = Cardinality(BlocksWith(4..block_size))
       /\ V[1] + V[2] + V[3] + V[4] = Len(blocks) )

\* analyze_sequence has classified two blocks, one with a single 1 and
\* one with a run of four or more
C17_Witness ==
  /\ test = "analyze_sequence"
  /\ Len(blocks) = 2
  /\ V = <<1, 0, 0, 1>>
  /\ \E j \in 1..2 : LongestRunOfOnes(blocks[j]) = 1

\* the runs of bits: the positions that start one
RunStarts(bits) == { i \in 1..Len(bits) : i = 1 \/ bits[i - 1] # bits[i] }

\* C18: when the pre-check passes, V of the_same_consecutive_bits is the
\* number of runs minus one, so 0 <= V <= n - 1.
C18_RunsStatistic ==
  ( /\ test = "the_same_consecutive_bits"
    /\ length > 0
    /\ ~ precheck(CountOnes(bit_sequence), length) )
  => ( /\ Len(V) = 1
       /\ V[1] = Cardinality(RunStarts(bit_sequence)) - 1
       /\ 0 <= V[1]
       /\ V[1] <= length - 1 )

\* the runs test has returned on a sequence of three runs or more whose
\* last two bits differ
C18_Witness ==
  /\ test = "the_same_consecutive_bits"
  /\ status = "returned"
  /\ p_value.fn = "erfc_c_d"
  /\ length >= 3
  /\ bit_sequence[length - 1] # bit_sequence[length]
  /\ V[1] >= 2

\* C19: max_consecutive_ones(block) is the length of the longest run of
\* '1' in block, 0 without a '1' and len(block) when all are '1', and at
\* every point of its scan current_count <= max_count <= characters read.
C19_LongestRun ==
  \A j \in 1..Len(scans) :
    LET block     == blocks[j]
        max_count == scans[j][Len(block)][1]
    IN  /\ max_count = LongestRunOfOnes(block)
        /\ (\A i \in 1..Len(block) : block[i] # "1") => max_count = 0
        /\ (\A i \in 1..Len(block) : block[i] = "1") => max_count = Len(block)
        /\ \A i \in 0..Len(block) :
             /\ scans[j][i][2] <= scans[j][i][1]
             /\ scans[j][i][1] <= i

\* max_consecutive_ones has scanned a block in which a run of ones is
\* followed by a zero and a shorter run
C19_Witness ==
  \E j \in 1..Len(scans) :
    /\ Len(blocks[j]) = block_size
    /\ scans[j][block_size][1] >= 2
    /\ scans[j][block_size][2] >= 1
    /\ scans[j][block_size][2] < scans[j][block_size][1]

\* C20: in the_same_consecutive_bits every bit string of length n >= 2
\* that passes the pre-check has a '0' and a '1', so d is not zero and c / d
\* is defined.
C20_DivisorNonZero ==
  ( /\ test = "the_same_consecutive_bits"
    /\ OnlyBits(bit_sequence)
    /\ length >= 2
    /\ ~ precheck(CountOnes(bit_sequence), length) )
  => ( /\ \E i \in 1..length : bit_sequence[i] = "0"
       /\ \E i \in 1..length : bit_sequence[i] = "1"
       /\ status # "ZeroDivisionError" )

\* C21: next_id gives 1 on an empty table and the largest row id plus 1
\* otherwise, so after any sequence of create_customer_record calls, also
\* of two data layers whose read and insert steps interleave, no two rows
\* of the table customers have the same internalId.
C21_InternalIdsUnique ==
  /\ Len(customers) > 0 => customers[1].internalId = 1
  /\ \A i, j \in 1..Len(customers) :
       i # j => customers[i].internalId # customers[j].internalId
====
